---- MODULE Spec2Model ----
(***************************************************************************)
(* Model of PostureEstimation/posture_analyzer.py (class PostureAnalyzer)  *)
(* and of the threshold table of PostureEstimation/app.py.                 *)
(*                                                                         *)
(* Encoding of the Python values:                                          *)
(*   - None is the record NoneValue;                                       *)
(*   - a normalized landmark coordinate is the integer numerator n of the  *)
(*     fraction n / Den (Den a power of two, so that x * w is exact in     *)
(*     floating point and int() is exactly Trunc);                         *)
(*   - a visibility is an integer number of tenths (0.5 is 5);             *)
(*   - shoulder_distance, a square root, is kept as its square, and        *)
(*     forward_head_ratio as the pair (numerator, squared denominator);    *)
(*   - a call either returns a value or raises: Ret(v) / Raise(e, m).      *)
(***************************************************************************)
EXTENDS Integers, Sequences, FiniteSets, TLC

VARIABLES
    frame,            \* the frame handed to the analyzer: None or [shape, drawn]
    detection,        \* what the pose model answers for this frame (environment)
    pose,             \* self.pose: "open" after __init__, "closed" after close()
    close_calls,      \* number of times self.pose.close() has run
    used_after_close, \* TRUE once self.pose.process ran on a closed handle
    results,          \* value returned by the last process_frame
    posture_input,    \* the results argument of the last analyze_posture call
    posture_data,     \* value returned by the last analyze_posture call
    out_frame,        \* value returned by the last draw_pose_annotations call
    raised            \* exception that left the last call, or None

vars == <<frame, detection, pose, close_calls, used_after_close, results,
          posture_input, posture_data, out_frame, raised>>

(***************************************************************************)
(* Python values                                                           *)
(***************************************************************************)
NoneValue == [none |-> TRUE]

IsNone(v) == "none" \in DOMAIN v

Ret(v) == [kind |-> "return", value |-> v]

Raise(e, m) == [kind |-> "raise", exc |-> e, msg |-> m]

\* dict.get(key, default)
Get(d, key, default) == IF key \in DOMAIN d THEN d[key] ELSE default

\* int(): truncation toward zero of the quotient n / d, d > 0
Trunc(n, d) == IF n >= 0 THEN n \div d ELSE -((-n) \div d)

Abs(n) == IF n >= 0 THEN n ELSE -n

(***************************************************************************)
(* Bounds of the model                                                     *)
(***************************************************************************)
\* denominator of the normalized coordinates
Den == 64

\* cap on the number of close() calls explored
MaxClose == 2

(***************************************************************************)
(* mp.solutions.pose.PoseLandmark: index of each landmark analyze_posture  *)
(* looks up.                                                               *)
(***************************************************************************)
PoseLandmark ==
    [nose |-> 0, left_eye |-> 2, right_eye |-> 5, left_ear |-> 7,
     right_ear |-> 8, left_shoulder |-> 11, right_shoulder |-> 12,
     left_hip |-> 23, right_hip |-> 24]

Required == DOMAIN PoseLandmark

Tracked == {"left_shoulder", "right_shoulder", "left_ear", "right_ear",
            "left_hip", "right_hip"}

(***************************************************************************)
(* Thresholds                                                              *)
(***************************************************************************)
visibility_threshold == 5

alignment_threshold == 30

neck_angle_threshold == 35

torso_angle_threshold == 10

forward_head_threshold == [num |-> 1, den |-> 5]

(***************************************************************************)
(* find_distance / find_angle                                              *)
(***************************************************************************)
\* find_distance(x1, y1, x2, y2) ** 2: the radicand of the square root
find_distance_sq(x1, y1, x2, y2) ==
    (x2 - x1) * (x2 - x1) + (y2 - y1) * (y2 - y1)

\* sin(k degrees) * 10^9, rounded, for k = 0 .. 90 (index k + 1)
SinTable ==
    <<0, 17452406, 34899497, 52335956, 69756474, 87155743, 104528463,
      121869343, 139173101, 156434465, 173648178, 190808995, 207911691,
      224951054, 241921896, 258819045, 275637356, 292371705, 309016994,
      325568154, 342020143, 358367950, 374606593, 390731128, 406736643,
      422618262, 438371147, 453990500, 469471563, 484809620, 500000000,
      515038075, 529919264, 544639035, 559192903, 573576436, 587785252,
      601815023, 615661475, 629320391, 642787610, 656059029, 669130606,
      681998360, 694658370, 707106781, 719339800, 731353702, 743144825,
      754709580, 766044443, 777145961, 788010754, 798635510, 809016994,
      819152044, 829037573, 838670568, 848048096, 857167301, 866025404,
      874619707, 882947593, 891006524, 898794046, 906307787, 913545458,
      920504853, 927183855, 933580426, 939692621, 945518576, 951056516,
      956304756, 961261696, 965925826, 970295726, 974370065, 978147601,
      981627183, 984807753, 987688341, 990268069, 992546152, 994521895,
      996194698, 997564050, 998629535, 999390827, 999847695, 1000000000>>

Sin(k) == SinTable[k + 1]

Cos(k) == SinTable[91 - k]

\* the products a * Sin(k) exceed 32 bits: they are kept as two limbs
LimbBase == 100000

\* a * t as <<high limb, low limb>>, 0 <= a < 2000, 0 <= t <= 10^9
Mul(a, t) ==
    LET hi == t \div LimbBase
        lo == t % LimbBase
    IN  <<a * hi + ((a * lo) \div LimbBase), (a * lo) % LimbBase>>

Leq(p, q) == p[1] < q[1] \/ (p[1] = q[1] /\ p[2] <= q[2])

\* tan(k degrees) <= a / b, for a, b >= 0 not both 0
TanLeq(k, a, b) == Leq(Mul(b, Sin(k)), Mul(a, Cos(k)))

\* int(math.degrees(math.atan2(a, b))) for a, b >= 0; atan2(0, 0) is 0
AtanDegrees(a, b) ==
    IF a = 0 /\ b = 0 THEN 0
    ELSE CHOOSE k \in 0..90 :
            /\ TanLeq(k, a, b)
            /\ (k = 90 \/ ~TanLeq(k + 1, a, b))

\* find_angle rounding the angle up instead of truncating it
find_angle_ceil(x1, y1, x2, y2) ==
    LET a == Abs(x2 - x1)
        b == Abs(y2 - y1)
        k == AtanDegrees(a, b)
    IN  IF (a = 0) \/ (b = 0) \/ (a = b) THEN k ELSE k + 1

find_angle(x1, y1, x2, y2) ==
    AtanDegrees(Abs(x2 - x1), Abs(y2 - y1))

(***************************************************************************)
(* analyze_posture                                                         *)
(***************************************************************************)
\* lm[idx] on the landmark list
Lookup(lm, name) ==
    IF PoseLandmark[name] < lm.len
    THEN Ret(name)
    ELSE Raise("IndexError", "list index out of range")

\* landmark.field
Attr(lm, name, field) ==
    IF <<name, field>> \in lm.lacking
    THEN Raise("AttributeError", field)
    ELSE Ret(IF field = "visibility" THEN lm.vis[name]
             ELSE IF field = "x" THEN lm.pos[name][1] ELSE lm.pos[name][2])

\* the exceptions the except clause of analyze_posture names
CaughtNoIndexError == {"AttributeError"}

Caught == {"IndexError", "AttributeError"}

\* the visibility gate without the left hip
visibility_gate_fails_no_hip(l_shoulder, r_shoulder, l_hip) ==
    \/ l_shoulder < visibility_threshold
    \/ r_shoulder < visibility_threshold

visibility_gate_fails(l_shoulder, r_shoulder, l_hip) ==
    \/ l_shoulder < visibility_threshold
    \/ r_shoulder < visibility_threshold
    \/ l_hip < visibility_threshold

\* int(landmark.x * w): c is the numerator of the coordinate over Den
ToPixel(c, dim) == Trunc(c * dim, Den)

Mid(a, b) == (a + b) \div 2

\* the forward head distance without the clamp to 0
forward_head_distance_unclamped(mid_ear_x, mid_shoulder_x) ==
    mid_ear_x - mid_shoulder_x

forward_head_distance(mid_ear_x, mid_shoulder_x) ==
    IF mid_ear_x > mid_shoulder_x THEN mid_ear_x - mid_shoulder_x ELSE 0

ZeroRatio == [num |-> 0, den_sq |-> 1]

\* n / sqrt(d_sq)
PyDiv(n, d_sq) ==
    IF d_sq = 0
    THEN Raise("ZeroDivisionError", "float division by zero")
    ELSE Ret([num |-> n, den_sq |-> d_sq])

\* the ratio without the guard on a zero shoulder distance
forward_head_ratio_unguarded(forward_head_distance_, shoulder_distance_sq) ==
    PyDiv(forward_head_distance_, shoulder_distance_sq)

forward_head_ratio(forward_head_distance_, shoulder_distance_sq) ==
    IF shoulder_distance_sq > 0
    THEN PyDiv(forward_head_distance_, shoulder_distance_sq)
    ELSE Ret(ZeroRatio)

\* r.num / sqrt(r.den_sq) < t.num / t.den
RatioLess(r, t) ==
    \/ r.num < 0
    \/ t.den * t.den * r.num * r.num < t.num * t.num * r.den_sq

\* shoulder_offset <= 30 in place of <
is_aligned_leq(shoulder_offset) == shoulder_offset <= alignment_threshold

is_aligned(shoulder_offset) == shoulder_offset < alignment_threshold

is_neck_good(neck_inclination) == neck_inclination < neck_angle_threshold

is_torso_good(torso_inclination) == torso_inclination < torso_angle_threshold

is_head_position_good(ratio) == RatioLess(ratio, forward_head_threshold)

\* the overall verdict without the head position
is_good_posture_no_head(aligned, neck_good, torso_good, head_good) ==
    aligned /\ neck_good /\ torso_good

is_good_posture(aligned, neck_good, torso_good, head_good) ==
    aligned /\ neck_good /\ torso_good /\ head_good

NoLandmarks ==
    [has_landmarks |-> FALSE, message |-> <<"No pose landmarks detected.">>]

NotVisible(landmarks_visibility) ==
    [has_landmarks |-> FALSE,
     message |-> <<"Key landmarks not visible enough">>,
     visibility |-> landmarks_visibility]

LandmarkError(e) ==
    [has_landmarks |-> FALSE,
     message |-> <<"Error processing landmarks: ", e>>]

\* lines 107-180: the assessment of a landmark set that passed the gate
Assess(lm, h, w, landmarks_visibility) ==
    LET px(name) == <<ToPixel(lm.pos[name][1], w), ToPixel(lm.pos[name][2], h)>>
        l_shldr == px("left_shoulder")
        r_shldr == px("right_shoulder")
        l_ear == px("left_ear")
        r_ear == px("right_ear")
        l_hip == px("left_hip")
        r_hip == px("right_hip")
        mid_shoulder == <<Mid(l_shldr[1], r_shldr[1]), Mid(l_shldr[2], r_shldr[2])>>
        mid_hip == <<Mid(l_hip[1], r_hip[1]), Mid(l_hip[2], r_hip[2])>>
        mid_ear == <<Mid(l_ear[1], r_ear[1]), Mid(l_ear[2], r_ear[2])>>
        shoulder_offset == Abs(l_shldr[2] - r_shldr[2])
        shoulder_distance_sq ==
            find_distance_sq(l_shldr[1], l_shldr[2], r_shldr[1], r_shldr[2])
        neck_inclination ==
            find_angle(mid_shoulder[1], mid_shoulder[2], mid_ear[1], mid_ear[2])
        torso_inclination ==
            find_angle(mid_hip[1], mid_hip[2], mid_shoulder[1], mid_shoulder[2])
        fhd == forward_head_distance(mid_ear[1], mid_shoulder[1])
        ratio == forward_head_ratio(fhd, shoulder_distance_sq)
    IN  IF ratio.kind = "raise" THEN ratio
        ELSE
        LET aligned == is_aligned(shoulder_offset)
            neck_good == is_neck_good(neck_inclination)
            torso_good == is_torso_good(torso_inclination)
            head_good == is_head_position_good(ratio.value)
            good == is_good_posture(aligned, neck_good, torso_good, head_good)
        IN  Ret([has_landmarks |-> TRUE,
                 shoulder_offset |-> shoulder_offset,
                 shoulder_distance_sq |-> shoulder_distance_sq,
                 neck_inclination |-> neck_inclination,
                 torso_inclination |-> torso_inclination,
                 forward_head_ratio |-> ratio.value,
                 is_aligned |-> aligned,
                 is_neck_good |-> neck_good,
                 is_torso_good |-> torso_good,
                 is_head_position_good |-> head_good,
                 is_good_posture |-> good,
                 posture_assessment |->
                    [shoulder_balance |-> IF aligned THEN "Good" ELSE "Poor",
                     neck_position |->
                        IF neck_good THEN "Good" ELSE "Forward head posture",
                     torso_position |->
                        IF torso_good THEN "Good" ELSE "Slouching",
                     overall |-> IF good THEN "Good" ELSE "Needs improvement"],
                 visibility |-> landmarks_visibility,
                 landmarks |->
                    [mid_shoulder |-> mid_shoulder, mid_hip |-> mid_hip,
                     mid_ear |-> mid_ear, l_shldr |-> l_shldr,
                     r_shldr |-> r_shldr, l_ear |-> l_ear, r_ear |-> r_ear,
                     l_hip |-> l_hip, r_hip |-> r_hip]])

\* lines 75-180: the body of the try statement
TryBody(lm, h, w) ==
    IF \E n \in Required : Lookup(lm, n).kind = "raise"
    THEN Lookup(lm, CHOOSE n \in Required : Lookup(lm, n).kind = "raise")
    ELSE IF \E n \in Tracked : Attr(lm, n, "visibility").kind = "raise"
    THEN Attr(lm, CHOOSE n \in Tracked :
                        Attr(lm, n, "visibility").kind = "raise", "visibility")
    ELSE
    LET landmarks_visibility ==
            [l_shoulder |-> lm.vis["left_shoulder"],
             r_shoulder |-> lm.vis["right_shoulder"],
             l_ear |-> lm.vis["left_ear"],
             r_ear |-> lm.vis["right_ear"],
             l_hip |-> lm.vis["left_hip"],
             r_hip |-> lm.vis["right_hip"]]
    IN  IF visibility_gate_fails(lm.vis["left_shoulder"],
                                 lm.vis["right_shoulder"], lm.vis["left_hip"])
        THEN Ret(NotVisible(landmarks_visibility))
        ELSE IF \E n \in Tracked, f \in {"x", "y"} : Attr(lm, n, f).kind = "raise"
        THEN LET c == CHOOSE c \in Tracked \X {"x", "y"} :
                            Attr(lm, c[1], c[2]).kind = "raise"
             IN  Attr(lm, c[1], c[2])
        ELSE Assess(lm, h, w, landmarks_visibility)

analyze_posture(results_, frame_) ==
    IF IsNone(results_) \/ IsNone(results_.pose_landmarks)
    THEN Ret(NoLandmarks)
    ELSE IF IsNone(frame_)
    THEN Raise("AttributeError", "shape")
    ELSE
    LET out == TryBody(results_.pose_landmarks.landmark,
                       frame_.shape[1], frame_.shape[2])
    IN  IF out.kind = "raise" /\ out.exc \in Caught
        THEN Ret(LandmarkError(out.msg))
        ELSE out

(***************************************************************************)
(* draw_pose_annotations                                                   *)
(***************************************************************************)
\* the empty dict
EmptyDict == [k \in {} |-> 0]

good_color == <<0, 255, 0>>

bad_color == <<0, 0, 255>>

reference_color == <<255, 255, 0>>

\* cv2.line(frame, p1, p2, color, thickness)
Line(p1, p2, color, thickness) ==
    [op |-> "line", p1 |-> p1, p2 |-> p2, color |-> color,
     thickness |-> thickness, text |-> <<>>]

\* cv2.putText(frame, text, org, font, 0.6, color, 2)
PutText(text, org, color) ==
    [op |-> "putText", p1 |-> org, p2 |-> org, color |-> color,
     thickness |-> 2, text |-> text]

\* the early return testing only for a missing assessment
draw_returns_early_none_only(posture_data_) == IsNone(posture_data_)

draw_returns_early(posture_data_) ==
    IsNone(posture_data_) \/ ~Get(posture_data_, "has_landmarks", FALSE)

draw_pose_annotations(frame_, posture_data_) ==
    IF draw_returns_early(posture_data_) THEN Ret(frame_)
    ELSE IF IsNone(frame_) THEN Raise("AttributeError", "shape")
    ELSE
    LET landmarks == Get(posture_data_, "landmarks", EmptyDict)
        color == IF Get(posture_data_, "is_good_posture", FALSE)
                 THEN good_color ELSE bad_color
        has(k) == k \in DOMAIN landmarks
        neck_line ==
            IF has("mid_shoulder") /\ has("mid_ear")
            THEN {Line(landmarks["mid_shoulder"], landmarks["mid_ear"], color, 2)}
            ELSE {}
        torso_line ==
            IF has("mid_shoulder") /\ has("mid_hip")
            THEN {Line(landmarks["mid_shoulder"], landmarks["mid_hip"], color, 2)}
            ELSE {}
        vertical_line ==
            IF has("mid_shoulder")
            THEN {Line(landmarks["mid_shoulder"],
                       <<landmarks["mid_shoulder"][1],
                         landmarks["mid_shoulder"][2] - 150>>,
                       reference_color, 2)}
            ELSE {}
        shoulder_line ==
            IF has("l_shldr") /\ has("r_shldr")
            THEN {Line(landmarks["l_shldr"], landmarks["r_shldr"], color, 3)}
            ELSE {}
        h == frame_.shape[1]
        neck_angle == Get(posture_data_, "neck_inclination", 0)
        torso_angle == Get(posture_data_, "torso_inclination", 0)
        angle_text ==
            {PutText(<<"Neck: ", ToString(neck_angle)>>, <<10, 30>>, color),
             PutText(<<"Torso: ", ToString(torso_angle)>>, <<10, 60>>, color)}
        posture_assessment == Get(posture_data_, "posture_assessment", EmptyDict)
        overall_text ==
            IF DOMAIN posture_assessment # {}
            THEN {PutText(<<"Posture: ", Get(posture_assessment, "overall", "")>>,
                          <<10, h - 20>>, color)}
            ELSE {}
    IN  Ret([frame_ EXCEPT !.drawn =
                @ \cup neck_line \cup torso_line \cup vertical_line
                  \cup shoulder_line \cup angle_text \cup overall_text])

(***************************************************************************)
(* Inputs: frames and the answers of the pose model                        *)
(***************************************************************************)
\* frame.shape[:2] is (h, w)
Frames ==
    {[shape |-> <<640, 640>>, drawn |-> {}],
     [shape |-> <<360, 480>>, drawn |-> {}]}

\* visibilities (tenths) of the gating landmarks and of the other three
\* (the two ears and the right hip share theirs)
GateVis == {3, 5}

OtherVis == {3, 9}

VisProfiles ==
    {[left_shoulder |-> a, right_shoulder |-> b, left_hip |-> c,
      left_ear |-> d, right_ear |-> d, right_hip |-> d] :
        a \in GateVis, b \in GateVis, c \in GateVis, d \in OtherVis}

\* positions <<x, y>>, numerators over Den
LShoulderPts == {<<10, 20>>, <<10, 22>>, <<10, 23>>}

RShoulderPts == {<<14, 20>>, <<10, 20>>, <<20, 20>>}

LEarPts == {<<11, 15>>, <<19, 15>>, <<21, 11>>, <<33, -7>>, <<3, 15>>}

REarPts == {<<13, 15>>}

LHipPts == {<<12, 40>>, <<16, 22>>, <<16, 24>>}

RHipPts == {<<12, 40>>}

Positions ==
    {[left_shoulder |-> a, right_shoulder |-> b, left_ear |-> c,
      right_ear |-> d, left_hip |-> e, right_hip |-> f] :
        a \in LShoulderPts, b \in RShoulderPts, c \in LEarPts,
        d \in REarPts, e \in LHipPts, f \in RHipPts}

BasePosition ==
    [left_shoulder |-> <<10, 20>>, right_shoulder |-> <<14, 20>>,
     left_ear |-> <<11, 15>>, right_ear |-> <<13, 15>>,
     left_hip |-> <<12, 40>>, right_hip |-> <<12, 40>>]

\* the full list of 33 landmarks, every field present
CompleteSets ==
    {[len |-> 33, lacking |-> {}, vis |-> v, pos |-> p] :
        v \in VisProfiles, p \in Positions}

\* a list cut before the right hip or before the right shoulder, a landmark
\* without visibility, a landmark without x
Defects ==
    {[len |-> 24, lacking |-> {}],
     [len |-> 12, lacking |-> {}],
     [len |-> 33, lacking |-> {<<"left_ear", "visibility">>}],
     [len |-> 33, lacking |-> {<<"right_hip", "x">>}]}

DefectiveSets ==
    {[len |-> d.len, lacking |-> d.lacking, vis |-> v, pos |-> BasePosition] :
        d \in Defects, v \in VisProfiles}

Detections ==
    {[pose_landmarks |-> NoneValue]}
    \cup {[pose_landmarks |-> [landmark |-> lm]] :
            lm \in CompleteSets \cup DefectiveSets}

(***************************************************************************)
(* The analyzer as a state machine                                         *)
(***************************************************************************)
\* state after PostureAnalyzer(): the pose model is open, nothing was called
Init ==
    /\ \/ frame \in Frames /\ detection \in Detections
       \/ frame = NoneValue /\ detection = NoneValue
    /\ pose = "open"
    /\ close_calls = 0
    /\ used_after_close = FALSE
    /\ results = NoneValue
    /\ posture_input = NoneValue
    /\ posture_data = NoneValue
    /\ out_frame = NoneValue
    /\ raised = NoneValue

\* process_frame(frame)
ProcessFrame ==
    /\ IF IsNone(frame)
       THEN /\ results' = NoneValue
            /\ raised' = NoneValue
            /\ UNCHANGED used_after_close
       ELSE IF pose = "closed"
       THEN /\ used_after_close' = TRUE
            /\ raised' = [op |-> "process_frame", exc |-> "closed"]
            /\ UNCHANGED results
       ELSE /\ results' = detection
            /\ raised' = NoneValue
            /\ UNCHANGED used_after_close
    /\ UNCHANGED <<frame, detection, pose, close_calls, posture_input,
                   posture_data, out_frame>>

\* posture_data = analyze_posture(results, frame)
AnalyzePosture ==
    LET out == analyze_posture(results, frame)
    IN  /\ posture_input' = results
        /\ IF out.kind = "return"
           THEN /\ posture_data' = out.value
                /\ raised' = NoneValue
           ELSE /\ raised' = [op |-> "analyze_posture", exc |-> out.exc]
                /\ UNCHANGED posture_data
        /\ UNCHANGED <<frame, detection, pose, close_calls, used_after_close,
                       results, out_frame>>

\* out_frame = draw_pose_annotations(frame, posture_data); the frame is
\* drawn on in place
DrawPoseAnnotations ==
    LET out == draw_pose_annotations(frame, posture_data)
    IN  /\ IF out.kind = "return"
           THEN /\ frame' = out.value
                /\ out_frame' = out.value
                /\ raised' = NoneValue
           ELSE /\ raised' = [op |-> "draw_pose_annotations", exc |-> out.exc]
                /\ UNCHANGED <<frame, out_frame>>
        /\ UNCHANGED <<detection, pose, close_calls, used_after_close, results,
                       posture_input, posture_data>>

\* close(): self.pose.close(), whatever the state of the handle
Close ==
    /\ close_calls < MaxClose
    /\ pose' = "closed"
    /\ close_calls' = close_calls + 1
    /\ raised' = IF pose = "closed"
                 THEN [op |-> "close", exc |-> "closed"]
                 ELSE NoneValue
    /\ UNCHANGED <<frame, detection, used_after_close, results, posture_input,
                   posture_data, out_frame>>

Next ==
    \/ ProcessFrame
    \/ AnalyzePosture
    \/ DrawPoseAnnotations
    \/ Close

Spec == Init /\ [][Next]_vars

(***************************************************************************)
(* Properties                                                              *)
(***************************************************************************)
\* C1: whenever analyze_posture was given a landmark set whose nine required
\* landmarks and six visibilities are there and in which the left shoulder,
\* the right shoulder or the left hip has visibility < 0.5, it returned the
\* unavailable variant with the message "Key landmarks not visible enough"
\* and a visibility map of exactly the six tracked keys, whatever the other
\* visibilities, the positions and the frame size.
C1_GateUnavailable ==
    (/\ ~IsNone(posture_input)
     /\ ~IsNone(posture_input.pose_landmarks)
     /\ LET lm == posture_input.pose_landmarks.landmark
        IN  /\ \A n \in Required : PoseLandmark[n] < lm.len
            /\ \A n \in Tracked : <<n, "visibility">> \notin lm.lacking
            /\ \/ lm.vis["left_shoulder"] < 5
               \/ lm.vis["right_shoulder"] < 5
               \/ lm.vis["left_hip"] < 5)
    => /\ IsNone(raised) \/ raised.op # "analyze_posture"
       /\ Get(posture_data, "has_landmarks", TRUE) = FALSE
       /\ posture_data.message = <<"Key landmarks not visible enough">>
       /\ DOMAIN Get(posture_data, "visibility", EmptyDict)
            = {"l_shoulder", "r_shoulder", "l_ear", "r_ear", "l_hip", "r_hip"}

\* C1 witness: analyze_posture answered a set in which only the left hip is
\* below the gate, the other two gating landmarks sitting exactly on it.
C1_Witness ==
    /\ ~IsNone(posture_input)
    /\ ~IsNone(posture_input.pose_landmarks)
    /\ posture_input.pose_landmarks.landmark.len = 33
    /\ posture_input.pose_landmarks.landmark.lacking = {}
    /\ posture_input.pose_landmarks.landmark.vis["left_shoulder"] = 5
    /\ posture_input.pose_landmarks.landmark.vis["right_shoulder"] = 5
    /\ posture_input.pose_landmarks.landmark.vis["left_hip"] = 3
    /\ posture_input.pose_landmarks.landmark.vis["right_hip"] = 9
    /\ Get(posture_data, "has_landmarks", TRUE) = FALSE
    /\ DOMAIN Get(posture_data, "visibility", EmptyDict) # {}

\* C2: no IndexError or AttributeError ever leaves analyze_posture, and a
\* call on a landmark set in which a required lookup fails (a list too short
\* for a required index, a landmark without visibility, or without a
\* coordinate once the gate has passed) returned the unavailable variant
\* whose message is "Error processing landmarks: " followed by the failure.
C2_LookupFailureCaught ==
    /\ IsNone(raised)
        \/ raised.op # "analyze_posture"
        \/ raised.exc \notin {"IndexError", "AttributeError", "KeyError"}
    /\ (/\ ~IsNone(posture_input)
        /\ ~IsNone(posture_input.pose_landmarks)
        /\ LET lm == posture_input.pose_landmarks.landmark
           IN  \/ \E n \in Required : PoseLandmark[n] >= lm.len
               \/ \E n \in Tracked : <<n, "visibility">> \in lm.lacking
               \/ /\ lm.vis["left_shoulder"] >= 5
                  /\ lm.vis["right_shoulder"] >= 5
                  /\ lm.vis["left_hip"] >= 5
                  /\ \E n \in Tracked : \E f \in {"x", "y"} :
                        <<n, f>> \in lm.lacking)
       => /\ Get(posture_data, "has_landmarks", TRUE) = FALSE
          /\ Len(posture_data.message) = 2
          /\ posture_data.message[1] = "Error processing landmarks: "
          /\ posture_data.message[2] # ""
          /\ IsNone(raised) \/ raised.op # "analyze_posture"

\* C2 witness: analyze_posture answered a landmark list that stops before
\* the right hip.
C2_Witness ==
    /\ ~IsNone(posture_input)
    /\ ~IsNone(posture_input.pose_landmarks)
    /\ posture_input.pose_landmarks.landmark.len = 24
    /\ Get(posture_data, "has_landmarks", TRUE) = FALSE
    /\ posture_data.message
        = <<"Error processing landmarks: ", "list index out of range">>

\* C3: in a full assessment is_good_posture is the conjunction of the four
\* sub-judgments.
C3_GoodIffAllFour ==
    Get(posture_data, "has_landmarks", FALSE)
    => (posture_data.is_good_posture
        <=> (/\ posture_data.is_aligned
             /\ posture_data.is_neck_good
             /\ posture_data.is_torso_good
             /\ posture_data.is_head_position_good))

\* C3 witness: a full assessment in which only the head position fails.
C3_Witness ==
    /\ Get(posture_data, "has_landmarks", FALSE)
    /\ posture_data.is_aligned
    /\ posture_data.is_neck_good
    /\ posture_data.is_torso_good
    /\ ~posture_data.is_head_position_good
    /\ ~posture_data.is_good_posture

\* C4: each sub-judgment of a full assessment is the strict comparison of
\* its metric with 30, 35, 10 and 0.2: a metric equal to its threshold
\* fails, a metric below it passes.
C4_StrictThresholds ==
    Get(posture_data, "has_landmarks", FALSE)
    => LET r == posture_data.forward_head_ratio
       IN  /\ posture_data.is_aligned <=> posture_data.shoulder_offset < 30
           /\ posture_data.is_neck_good <=> posture_data.neck_inclination < 35
           /\ posture_data.is_torso_good <=> posture_data.torso_inclination < 10
           /\ r.num >= 0
           /\ posture_data.is_head_position_good
                <=> 25 * r.num * r.num < r.den_sq

\* C4 witness: a full assessment whose neck and torso angles are exactly 35
\* and 10.
C4_Witness ==
    /\ Get(posture_data, "has_landmarks", FALSE)
    /\ posture_data.neck_inclination = 35
    /\ posture_data.torso_inclination = 10
    /\ ~posture_data.is_neck_good
    /\ ~posture_data.is_torso_good

\* C5: a step taken while the assessment is missing or unavailable leaves
\* every pixel of the frame as it was, and a draw_pose_annotations call made
\* then returns that frame.
C5_UnavailableNoDrawing ==
    [][(IsNone(posture_data) \/ ~Get(posture_data, "has_landmarks", FALSE))
       => /\ frame' = frame
          /\ out_frame' # out_frame => out_frame' = frame]_vars

\* C5 witness: draw_pose_annotations returned the untouched frame while the
\* assessment is the unavailable variant.
C5_Witness ==
    /\ ~IsNone(frame)
    /\ out_frame = frame
    /\ frame.drawn = {}
    /\ ~IsNone(posture_data)
    /\ posture_data.has_landmarks = FALSE

\* C6 as stated: with shoulder midpoint (120,200) and ear midpoint (160,150)
\* the neck inclination is 39 degrees and is_neck_good is false.
C6_Original ==
    (/\ Get(posture_data, "has_landmarks", FALSE)
     /\ posture_data.landmarks.mid_shoulder = <<120, 200>>
     /\ posture_data.landmarks.mid_ear = <<160, 150>>)
    => /\ posture_data.neck_inclination = 39
       /\ ~posture_data.is_neck_good

\* C6 amended: with shoulder midpoint (120,200) and ear midpoint (160,150)
\* the neck inclination is 38 degrees (the angle is truncated, not rounded)
\* and is_neck_good is false.
C6_Truncated ==
    (/\ Get(posture_data, "has_landmarks", FALSE)
     /\ posture_data.landmarks.mid_shoulder = <<120, 200>>
     /\ posture_data.landmarks.mid_ear = <<160, 150>>)
    => /\ posture_data.neck_inclination = 38
       /\ ~posture_data.is_neck_good

\* C6 witness: a full assessment with exactly those two midpoints.
C6_Witness ==
    /\ Get(posture_data, "has_landmarks", FALSE)
    /\ posture_data.landmarks.mid_shoulder = <<120, 200>>
    /\ posture_data.landmarks.mid_ear = <<160, 150>>
    /\ posture_data.neck_inclination = 38

\* C7 as stated: in a full assessment the overall label is never
\* "Needs improvement" while every other label reads "Good".
C7_FailureHasOwnLabel ==
    Get(posture_data, "has_landmarks", FALSE)
    => ~(/\ posture_data.posture_assessment.overall = "Needs improvement"
         /\ \A k \in DOMAIN posture_data.posture_assessment \ {"overall"} :
                posture_data.posture_assessment[k] = "Good")

\* C8: a call on a complete landmark set that passes the gate and whose two
\* shoulders project to the same pixel returned a full assessment with
\* forward_head_ratio 0, and raised nothing.
C8_ZeroShoulderDistance ==
    (/\ ~IsNone(posture_input)
     /\ ~IsNone(posture_input.pose_landmarks)
     /\ LET lm == posture_input.pose_landmarks.landmark
        IN  /\ lm.len = 33
            /\ lm.lacking = {}
            /\ lm.vis["left_shoulder"] >= 5
            /\ lm.vis["right_shoulder"] >= 5
            /\ lm.vis["left_hip"] >= 5
            /\ Trunc(lm.pos["left_shoulder"][1] * frame.shape[2], Den)
                = Trunc(lm.pos["right_shoulder"][1] * frame.shape[2], Den)
            /\ Trunc(lm.pos["left_shoulder"][2] * frame.shape[1], Den)
                = Trunc(lm.pos["right_shoulder"][2] * frame.shape[1], Den))
    => /\ IsNone(raised) \/ raised.op # "analyze_posture"
       /\ Get(posture_data, "has_landmarks", FALSE)
       /\ posture_data.forward_head_ratio.num = 0

\* C8 witness: a full assessment with coinciding shoulders and the ears
\* ahead of them.
C8_Witness ==
    /\ Get(posture_data, "has_landmarks", FALSE)
    /\ posture_data.landmarks.l_shldr = posture_data.landmarks.r_shldr
    /\ posture_data.landmarks.mid_ear[1] > posture_data.landmarks.mid_shoulder[1]
    /\ posture_data.forward_head_ratio.num = 0

\* C9 as stated: the pose model is released at most once and process_frame
\* never uses it after the release.
C9_ReleasedOnceNeverUsedAfter ==
    /\ close_calls <= 1
    /\ ~used_after_close

\* C10: in a full assessment both angles are integers of 0..90, the
\* shoulder offset and the forward head ratio are not negative, and the
\* left shoulder, the right shoulder and the left hip of the landmark set
\* it was computed from each have visibility >= 0.5.
C10_MetricRanges ==
    Get(posture_data, "has_landmarks", FALSE)
    => /\ posture_data.neck_inclination \in 0..90
       /\ posture_data.torso_inclination \in 0..90
       /\ posture_data.shoulder_offset >= 0
       /\ posture_data.forward_head_ratio.num >= 0
       /\ posture_data.forward_head_ratio.den_sq > 0
       /\ ~IsNone(posture_input)
       /\ ~IsNone(posture_input.pose_landmarks)
       /\ posture_input.pose_landmarks.landmark.vis["left_shoulder"] >= 5
       /\ posture_input.pose_landmarks.landmark.vis["right_shoulder"] >= 5
       /\ posture_input.pose_landmarks.landmark.vis["left_hip"] >= 5

\* C10 witness: a full assessment with the ears behind the shoulders, an
\* ear above the frame and a leaning neck.
C10_Witness ==
    /\ Get(posture_data, "has_landmarks", FALSE)
    /\ posture_data.landmarks.mid_ear[1] < posture_data.landmarks.mid_shoulder[1]
    /\ posture_data.forward_head_ratio.num = 0
    /\ posture_data.neck_inclination > 0
    /\ posture_data.shoulder_offset > 0

====
